---- MODULE Spec2Model ----
(***************************************************************************)
(* VisualRelationTorch (openks/models/pytorch/hoi_learn.py): the HOI model *)
(* controller.  The constructor, train(), evaluate() and run(mode) are     *)
(* modelled statement by statement; pc is the position of the single       *)
(* Python thread inside them.  Every call the controller makes to a        *)
(* collaborator is appended to `calls`, so that the order and number of    *)
(* external steps can be stated.                                           *)
(***************************************************************************)
EXTENDS Integers, Sequences, FiniteSets, TLC

VARIABLES
    pc,            \* position of the thread in __init__ / run / train / evaluate
    argv,          \* the overrides handed to the constructor, as argparse sees them
    env,           \* the process environment read by init_distributed_mode
    args,          \* self.args
    error,         \* the exception that left the controller, "none" when none did
    seeds,         \* the values given to torch / numpy / random seeding
    model,         \* self.model_without_ddp: its named parameters
    optimizer,     \* self.optimizer: parameter groups and step count
    lr_scheduler,  \* self.lr_scheduler
    recorder,      \* self.recorder
    calls,         \* external calls made by the constructor or by the current run()
    mode,          \* the argument of the current / last run()
    epoch,         \* the loop variable of train()
    runs           \* number of run() invocations so far

vars == <<pc, argv, env, args, error, seeds, model, optimizer, lr_scheduler,
          recorder, calls, mode, epoch, runs>>

\* ---------------------------------------------------------------- bounds
MaxEpochs == 2
MaxRank == 1
MaxParams == 2
MaxRuns == 2
MaxSeed == 1
MaxCkptEpoch == 1

\* ------------------------------------------------------ program constants
\* Defaults of add_argument; the learning rates are in units of 1e-6.
DefaultLr == 100
DefaultLrBackbone == 10
DefaultEpochs == 60
DefaultSeed == 42
DefaultStartEpoch == 0

\* ------------------------------------------------------------- parse_args
StoreTrueOptions == {"--hoi", "--masks"}
IntOptions == {"--epochs", "--seed", "--start_epoch"}
StrOptions == {"--frozen_weights"}
ChoiceOptions == {"--position_embedding"}
PositionEmbeddingChoices == {"sine", "learned"}
KnownOptions == StoreTrueOptions \cup IntOptions \cup StrOptions \cup ChoiceOptions

\* A token that argparse takes for an option string (it starts with "--").
OptionLike == KnownOptions \cup {"--bogus"}

\* The attribute of the namespace that an option string is stored to.
Dest(opt) ==
    CASE opt = "--hoi" -> "hoi"
      [] opt = "--masks" -> "masks"
      [] opt = "--epochs" -> "epochs"
      [] opt = "--seed" -> "seed"
      [] opt = "--start_epoch" -> "start_epoch"
      [] opt = "--frozen_weights" -> "frozen_weights"
      [] opt = "--position_embedding" -> "position_embedding"

\* The namespace of defaults that add_argument builds.
Defaults ==
    [ lr |-> DefaultLr,
      lr_backbone |-> DefaultLrBackbone,
      epochs |-> DefaultEpochs,
      frozen_weights |-> "None",
      position_embedding |-> "sine",
      masks |-> FALSE,
      hoi |-> FALSE,
      seed |-> DefaultSeed,
      start_epoch |-> DefaultStartEpoch,
      distributed |-> FALSE,
      rank |-> 0,
      ok |-> TRUE ]

\* type=int: the decimal numerals that int() accepts, within the modelled range.
\* Option strings are atomic tokens: argparse's prefix abbreviations are not modelled.
IntRange == 0 .. (DefaultEpochs + MaxEpochs + 1)
IsInt(s) == \E n \in IntRange : ToString(n) = s
IntOf(s) == CHOOSE n \in IntRange : ToString(n) = s

RECURSIVE ParseFrom(_, _)
ParseFrom(toks, ns) ==
    IF toks = <<>> THEN ns
    ELSE LET t == Head(toks)
             rest == Tail(toks)
         IN  IF t \in StoreTrueOptions
                THEN ParseFrom(rest, [ns EXCEPT ![Dest(t)] = TRUE])
             ELSE IF t \in KnownOptions
                THEN IF rest = <<>> \/ Head(rest) \in OptionLike
                        THEN [ns EXCEPT !.ok = FALSE]      \* expected one argument
                     ELSE LET v == Head(rest) IN
                          IF t \in IntOptions
                             THEN IF IsInt(v)
                                     THEN ParseFrom(Tail(rest), [ns EXCEPT ![Dest(t)] = IntOf(v)])
                                     ELSE [ns EXCEPT !.ok = FALSE]   \* invalid int value
                          ELSE IF t \in ChoiceOptions
                             THEN IF v \in PositionEmbeddingChoices
                                     THEN ParseFrom(Tail(rest), [ns EXCEPT ![Dest(t)] = v])
                                     ELSE [ns EXCEPT !.ok = FALSE]   \* invalid choice
                          ELSE ParseFrom(Tail(rest), [ns EXCEPT ![Dest(t)] = v])
             ELSE [ns EXCEPT !.ok = FALSE]                 \* unrecognized arguments

\* Variant: parse_known_args, which lets what it cannot parse pass.
parse_known_args(a) == [ParseFrom(a, Defaults) EXCEPT !.ok = TRUE]

parse_args(a) == ParseFrom(a, Defaults)

\* ------------------------------------------------------------ environment
\* Parameter names that build_model may give, spelled out so that the
\* substring test of the optimizer construction is computed, not assumed.
NameBackboneW == <<"b","a","c","k","b","o","n","e",".","w">>
NameHoiBackbone == <<"h","_","b","a","c","k","b","o","n","e">>
NameBackDotBone == <<"b","a","c","k",".","b","o","n","e">>
NameQuery == <<"q","u","e","r","y">>
ParamNames == {NameBackboneW, NameHoiBackbone, NameBackDotBone, NameQuery}

\* The modules build_model may return: named parameters (names are unique in
\* named_parameters()) with their requires_grad flag.
Nets ==
    UNION { [S -> BOOLEAN] : S \in { T \in SUBSET ParamNames : Cardinality(T) <= MaxParams } }

NetParams(net) == { [name |-> n, requires_grad |-> net[n]] : n \in DOMAIN net }

Envs(nets) ==
    { e \in [ distributed : BOOLEAN,
              rank : 0 .. MaxRank,
              net : nets,
              ckpt : {"missing", "ok", "corrupt"},
              ckpt_epoch : 1 .. MaxCkptEpoch ] :
        /\ (~e.distributed => e.rank = 0)
        /\ (e.ckpt # "ok" => e.ckpt_epoch = 1) }

\* ----------------------------------------------------------------- inputs
Opt(flag) == {<<>>, <<flag>>}
IntArg(flag, S) == {<<>>} \cup { <<flag, ToString(n)>> : n \in S }

BadPieces ==
    { <<"--bogus">>, <<"hoi">>, <<"--epochs">>, <<"--epochs", "abc">>,
      <<"--position_embedding", "cubic">> }
ExtraPieces == {<<>>, <<"--position_embedding", "learned">>} \cup BadPieces

\* Overrides that bound the epoch loop: either --epochs is small, or the
\* default number of epochs is used and --start_epoch is close to it.
LoopPieces ==
    { e \o s : e \in IntArg("--epochs", 0 .. MaxEpochs),
               s \in IntArg("--start_epoch", (0 .. MaxEpochs) \cup
                                  {DefaultEpochs - MaxEpochs, DefaultEpochs - 1, DefaultEpochs}) }

LoopBounded(a) ==
    LET ns == parse_args(a) IN ns.ok => ns.epochs - ns.start_epoch <= MaxEpochs

\* Overrides explored for the constructor.
CtorArgv ==
    { h \o m \o f \o sd \o x :
        h \in Opt("--hoi"), m \in Opt("--masks"),
        f \in {<<>>, <<"--frozen_weights", "w.pth">>},
        sd \in IntArg("--seed", 0 .. MaxSeed),
        x \in ExtraPieces }

\* Overrides explored for the whole life cycle.
RunArgv ==
    { a \in { h \o l \o x : h \in Opt("--hoi"), l \in LoopPieces,
                            x \in {<<>>, <<"--bogus">>, <<"--frozen_weights", "w.pth">>} } :
        LoopBounded(a) }

RunNets == { n \in Nets : DOMAIN n = {NameBackboneW, NameQuery} /\ n[NameQuery] }

NoOptimizer == [built |-> FALSE, groups |-> <<>>, steps |-> 0]
NoScheduler == [built |-> FALSE, last_epoch |-> 0]
NoRecorder == [present |-> FALSE, updates |-> 0]
NoModel == [built |-> FALSE, params |-> {}, ddp |-> FALSE, n_parameters |-> 0]

InitWith(argvs, nets) ==
    /\ pc = "new"
    /\ argv \in argvs
    /\ env \in Envs(nets)
    /\ args = Defaults
    /\ error = "none"
    /\ seeds = [torch |-> {}, numpy |-> {}, random |-> {}]
    /\ model = NoModel
    /\ optimizer = NoOptimizer
    /\ lr_scheduler = NoScheduler
    /\ recorder = NoRecorder
    /\ calls = <<>>
    /\ mode = "none"
    /\ epoch = 0
    /\ runs = 0

Event(op, ep) == [op |-> op, epoch |-> ep]
Call(op, ep) == calls' = Append(calls, Event(op, ep))

\* ------------------------------------------------------------ constructor
\* self.args = self.parse_args(args): argparse exits on a bad command line.
ParseArgs ==
    /\ pc = "new"
    /\ LET ns == parse_args(argv) IN
         \/ /\ ns.ok
            /\ args' = ns
            /\ pc' = "init_distributed"
            /\ UNCHANGED error
         \/ /\ ~ns.ok
            /\ pc' = "failed"
            /\ error' = "SystemExit"
            /\ UNCHANGED args
    /\ UNCHANGED <<argv, env, seeds, model, optimizer, lr_scheduler, recorder,
                   calls, mode, epoch, runs>>

\* utils.init_distributed_mode(self.args) stores the mode and the rank in args.
init_distributed_mode(a, e) ==
    [a EXCEPT !.distributed = e.distributed, !.rank = e.rank]

InitDistributed ==
    /\ pc = "init_distributed"
    /\ args' = init_distributed_mode(args, env)
    /\ Call("init_distributed_mode", 0)
    /\ pc' = "check_frozen"
    /\ UNCHANGED <<argv, env, error, seeds, model, optimizer, lr_scheduler,
                   recorder, mode, epoch, runs>>

\* Variant: the assertion is not made.
FrozenNeverChecked(a) == FALSE

\* if self.args.frozen_weights is not None: assert self.args.masks
FrozenWithoutMasks(a) == a.frozen_weights # "None" /\ ~a.masks

CheckFrozen ==
    /\ pc = "check_frozen"
    /\ \/ /\ FrozenWithoutMasks(args)
          /\ pc' = "failed"
          /\ error' = "AssertionError"
       \/ /\ ~FrozenWithoutMasks(args)
          /\ pc' = "seed"
          /\ UNCHANGED error
    /\ UNCHANGED <<argv, env, args, seeds, model, optimizer, lr_scheduler,
                   recorder, calls, mode, epoch, runs>>

\* utils.get_rank(): the rank of the process, 0 when not distributed.
get_rank(a) == IF a.distributed THEN a.rank ELSE 0

\* Variant: the rank is left out of the seed.
SeedValueNoRank(a) == a.seed

\* seed = self.args.seed + utils.get_rank()
SeedValue(a) == a.seed + get_rank(a)

SeedAll ==
    /\ pc = "seed"
    /\ LET seed == SeedValue(args) IN
         seeds' = [torch |-> {seed}, numpy |-> {seed}, random |-> {seed}]
    /\ pc' = "build_model"
    /\ UNCHANGED <<argv, env, args, error, model, optimizer, lr_scheduler,
                   recorder, calls, mode, epoch, runs>>

\* self.model, ... = build_model(self.args); DDP wrapping when distributed;
\* n_parameters counts the trainable parameters (one element each).
BuildModel ==
    /\ pc = "build_model"
    /\ Call("build_model", 0)
    /\ model' = [ built |-> TRUE, params |-> NetParams(env.net),
                  ddp |-> args.distributed,
                  n_parameters |-> Cardinality({ p \in NetParams(env.net) : p.requires_grad }) ]
    /\ pc' = "build_optimizer"
    /\ UNCHANGED <<argv, env, args, error, seeds, optimizer, lr_scheduler,
                   recorder, mode, epoch, runs>>

\* Variant: n.startswith("backbone")
StartsWith(sub, s) == Len(sub) <= Len(s) /\ SubSeq(s, 1, Len(sub)) = sub

\* "backbone" in n
Needle == <<"b","a","c","k","b","o","n","e">>
IsSubstring(sub, s) ==
    \E i \in 0 .. (Len(s) - Len(sub)) : SubSeq(s, i + 1, i + Len(sub)) = sub

\* self.param_dicts: the parameters are identified by their names.
param_dicts(m, a) ==
    << [ params |-> { p.name : p \in { q \in m.params :
                          ~IsSubstring(Needle, q.name) /\ q.requires_grad } } ],
       [ params |-> { p.name : p \in { q \in m.params :
                          IsSubstring(Needle, q.name) /\ q.requires_grad } },
         lr |-> a.lr_backbone ] >>

\* torch.optim.AdamW(param_dicts, lr=...): a group without its own lr takes the default.
AdamW(pd, lr) ==
    [ built |-> TRUE,
      groups |-> [ i \in 1 .. Len(pd) |->
                     IF "lr" \in DOMAIN pd[i]
                        THEN [params |-> pd[i].params, lr |-> pd[i].lr]
                        ELSE [params |-> pd[i].params, lr |-> lr] ],
      steps |-> 0 ]

BuildOptimizer ==
    /\ pc = "build_optimizer"
    /\ optimizer' = AdamW(param_dicts(model, args), args.lr)
    /\ lr_scheduler' = [built |-> TRUE, last_epoch |-> 0]
    /\ pc' = "recorder"
    /\ UNCHANGED <<argv, env, args, error, seeds, model, recorder, calls, mode,
                   epoch, runs>>

\* self.recorder = utils.RecorderHOI() if self.args.hoi else None
RecorderFor(a) == [present |-> a.hoi, updates |-> 0]

MakeRecorder ==
    /\ pc = "recorder"
    /\ recorder' = RecorderFor(args)
    /\ pc' = "load_model_weights"
    /\ UNCHANGED <<argv, env, args, error, seeds, model, optimizer, lr_scheduler,
                   calls, mode, epoch, runs>>

\* utils.load_model_weights(...): no checkpoint, a checkpoint that is restored
\* into optimizer, scheduler and recorder, or a checkpoint that cannot be loaded.
LoadWeights ==
    /\ pc = "load_model_weights"
    /\ Call("load_model_weights", 0)
    /\ \/ /\ env.ckpt = "missing"
          /\ pc' = "idle"
          /\ UNCHANGED <<optimizer, lr_scheduler, recorder, error>>
       \/ /\ env.ckpt = "ok"
          /\ pc' = "idle"
          /\ optimizer' = [optimizer EXCEPT !.steps = env.ckpt_epoch]
          /\ lr_scheduler' = [lr_scheduler EXCEPT !.last_epoch = env.ckpt_epoch]
          /\ recorder' = IF recorder.present
                            THEN [recorder EXCEPT !.updates = env.ckpt_epoch]
                            ELSE recorder
          /\ UNCHANGED error
       \/ /\ env.ckpt = "corrupt"
          /\ pc' = "failed"
          /\ error' = "external"
          /\ UNCHANGED <<optimizer, lr_scheduler, recorder>>
    /\ UNCHANGED <<argv, env, args, seeds, model, mode, epoch, runs>>

\* -------------------------------------------------------------- run(mode)
OtherModes == {"test", ""}

RunTrain ==
    /\ pc = "idle" /\ runs < MaxRuns
    /\ mode' = "train" /\ runs' = runs + 1 /\ calls' = <<>>
    /\ pc' = "train_build_train"
    /\ UNCHANGED <<argv, env, args, error, seeds, model, optimizer, lr_scheduler,
                   recorder, epoch>>

RunEval ==
    /\ pc = "idle" /\ runs < MaxRuns
    /\ mode' = "eval" /\ runs' = runs + 1 /\ calls' = <<>>
    /\ pc' = "eval_build_val"
    /\ UNCHANGED <<argv, env, args, error, seeds, model, optimizer, lr_scheduler,
                   recorder, epoch>>

\* raise ValueError("UnImplemented mode!")
RunSingle ==
    /\ pc = "idle" /\ runs < MaxRuns
    /\ mode' = "single" /\ runs' = runs + 1 /\ calls' = <<>>
    /\ pc' = "aborted" /\ error' = "ValueError"
    /\ UNCHANGED <<argv, env, args, seeds, model, optimizer, lr_scheduler,
                   recorder, epoch>>

\* No branch of the if / elif chain matches: run() returns None.
RunOther ==
    /\ pc = "idle" /\ runs < MaxRuns
    /\ \E m \in OtherModes : mode' = m
    /\ runs' = runs + 1 /\ calls' = <<>>
    /\ pc' = "idle"
    /\ UNCHANGED <<argv, env, args, error, seeds, model, optimizer, lr_scheduler,
                   recorder, epoch>>

\* An exception raised by a collaborator leaves train() / evaluate() / run().
Raise == pc' = "aborted" /\ error' = "external"

\* -------------------------------------------------------------- evaluate()
EvalBuildVal ==
    /\ pc = "eval_build_val"
    /\ Call("build_dataset_val", 0)
    /\ \/ pc' = "eval_evaluate_hoi" /\ UNCHANGED error
       \/ Raise
    /\ UNCHANGED <<argv, env, args, seeds, model, optimizer, lr_scheduler,
                   recorder, mode, epoch, runs>>

\* Variant: the evaluation pass of evaluate() also advances the scheduler.
EvalEvaluateHoiStepping ==
    /\ pc = "eval_evaluate_hoi"
    /\ Call("evaluate_hoi", 0)
    /\ lr_scheduler' = [lr_scheduler EXCEPT !.last_epoch = @ + 1]
    /\ \/ pc' = "idle" /\ UNCHANGED error
       \/ Raise
    /\ UNCHANGED <<argv, env, args, seeds, model, optimizer, recorder, mode,
                   epoch, runs>>

EvalEvaluateHoi ==
    /\ pc = "eval_evaluate_hoi"
    /\ Call("evaluate_hoi", 0)
    /\ \/ pc' = "idle" /\ UNCHANGED error
       \/ Raise
    /\ UNCHANGED <<argv, env, args, seeds, model, optimizer, lr_scheduler,
                   recorder, mode, epoch, runs>>

\* ----------------------------------------------------------------- train()
TrainBuildTrain ==
    /\ pc = "train_build_train"
    /\ Call("build_dataset_train", 0)
    /\ \/ pc' = "train_build_val" /\ UNCHANGED error
       \/ Raise
    /\ UNCHANGED <<argv, env, args, seeds, model, optimizer, lr_scheduler,
                   recorder, mode, epoch, runs>>

\* The second build_dataset; the loop then starts at range()'s first index.
TrainBuildVal ==
    /\ pc = "train_build_val"
    /\ Call("build_dataset_val", 0)
    /\ \/ pc' = "loop" /\ epoch' = args.start_epoch /\ UNCHANGED error
       \/ Raise /\ UNCHANGED epoch
    /\ UNCHANGED <<argv, env, args, seeds, model, optimizer, lr_scheduler,
                   recorder, mode, runs>>

\* Variant: the sampler is notified whether or not the run is distributed.
LoopHeadAlwaysSetEpoch ==
    /\ pc = "loop"
    /\ \/ /\ epoch < args.epochs
          /\ pc' = "set_epoch"
       \/ /\ epoch >= args.epochs
          /\ pc' = "report"
    /\ UNCHANGED <<argv, env, args, error, seeds, model, optimizer, lr_scheduler,
                   recorder, calls, mode, epoch, runs>>

\* Variant: the upper end of the range is included.
LoopHeadInclusive ==
    /\ pc = "loop"
    /\ \/ /\ epoch <= args.epochs
          /\ pc' = IF args.distributed THEN "set_epoch" ELSE "train_one_epoch"
       \/ /\ epoch > args.epochs
          /\ pc' = "report"
    /\ UNCHANGED <<argv, env, args, error, seeds, model, optimizer, lr_scheduler,
                   recorder, calls, mode, epoch, runs>>

\* for epoch in range(self.args.start_epoch, self.args.epochs)
LoopHead ==
    /\ pc = "loop"
    /\ \/ /\ epoch < args.epochs
          /\ pc' = IF args.distributed THEN "set_epoch" ELSE "train_one_epoch"
       \/ /\ epoch >= args.epochs
          /\ pc' = "report"
    /\ UNCHANGED <<argv, env, args, error, seeds, model, optimizer, lr_scheduler,
                   recorder, calls, mode, epoch, runs>>

\* sampler_train.set_epoch(epoch)
SetEpoch ==
    /\ pc = "set_epoch"
    /\ Call("set_epoch", epoch)
    /\ pc' = "train_one_epoch"
    /\ UNCHANGED <<argv, env, args, error, seeds, model, optimizer, lr_scheduler,
                   recorder, mode, epoch, runs>>

\* Variant: a failed training pass is swallowed and the epoch goes on.
TrainOneEpochSwallow ==
    /\ pc = "train_one_epoch"
    /\ Call("train_one_epoch", epoch)
    /\ pc' = "lr_scheduler_step"
    /\ \/ optimizer' = [optimizer EXCEPT !.steps = @ + 1] /\ UNCHANGED error
       \/ error' = "external" /\ UNCHANGED optimizer
    /\ UNCHANGED <<argv, env, args, seeds, model, lr_scheduler, recorder, mode,
                   epoch, runs>>

\* train_one_epoch(..., self.optimizer, ..., epoch, ...) steps the optimizer.
TrainOneEpoch ==
    /\ pc = "train_one_epoch"
    /\ Call("train_one_epoch", epoch)
    /\ \/ /\ pc' = "lr_scheduler_step"
          /\ optimizer' = [optimizer EXCEPT !.steps = @ + 1]
          /\ UNCHANGED error
       \/ Raise /\ UNCHANGED optimizer
    /\ UNCHANGED <<argv, env, args, seeds, model, lr_scheduler, recorder, mode,
                   epoch, runs>>

\* self.lr_scheduler.step()
SchedulerStep ==
    /\ pc = "lr_scheduler_step"
    /\ Call("lr_scheduler_step", epoch)
    /\ \/ /\ pc' = "evaluate_hoi"
          /\ lr_scheduler' = [lr_scheduler EXCEPT !.last_epoch = @ + 1]
          /\ UNCHANGED error
       \/ Raise /\ UNCHANGED lr_scheduler
    /\ UNCHANGED <<argv, env, args, seeds, model, optimizer, recorder, mode,
                   epoch, runs>>

\* test_stats = evaluate_hoi(...)
EvaluateHoi ==
    /\ pc = "evaluate_hoi"
    /\ Call("evaluate_hoi", epoch)
    /\ \/ pc' = "save_checkpoints" /\ UNCHANGED error
       \/ Raise
    /\ UNCHANGED <<argv, env, args, seeds, model, optimizer, lr_scheduler,
                   recorder, mode, epoch, runs>>

\* utils.save_checkpoints(..., self.recorder, epoch, test_stats, ...) updates the
\* recorder, when there is one, with the statistics of the epoch.
SaveCheckpoints ==
    /\ pc = "save_checkpoints"
    /\ Call("save_checkpoints", epoch)
    /\ \/ /\ pc' = "save_logs"
          /\ recorder' = IF recorder.present
                            THEN [recorder EXCEPT !.updates = @ + 1]
                            ELSE recorder
          /\ UNCHANGED error
       \/ Raise /\ UNCHANGED recorder
    /\ UNCHANGED <<argv, env, args, seeds, model, optimizer, lr_scheduler, mode,
                   epoch, runs>>

\* utils.save_logs(..., epoch, ...); the loop then takes range()'s next index.
SaveLogs ==
    /\ pc = "save_logs"
    /\ Call("save_logs", epoch)
    /\ \/ pc' = "loop" /\ epoch' = epoch + 1 /\ UNCHANGED error
       \/ Raise /\ UNCHANGED epoch
    /\ UNCHANGED <<argv, env, args, seeds, model, optimizer, lr_scheduler,
                   recorder, mode, runs>>

\* Variant: the best metrics are reported without asking for a recorder.
ReportCallsAlways(r) ==
    <<Event("print_total_time", 0), Event("print_best_metrics", 0)>>

\* After the loop: the duration, and the best metrics if there is a recorder.
ReportCalls(r) ==
    IF r.present
       THEN <<Event("print_total_time", 0), Event("print_best_metrics", 0)>>
       ELSE <<Event("print_total_time", 0)>>

Report ==
    /\ pc = "report"
    /\ calls' = calls \o ReportCalls(recorder)
    /\ pc' = "idle"
    /\ UNCHANGED <<argv, env, args, error, seeds, model, optimizer, lr_scheduler,
                   recorder, mode, epoch, runs>>

\* ---------------------------------------------------------- specifications
Constructor ==
    \/ ParseArgs
    \/ InitDistributed
    \/ CheckFrozen
    \/ SeedAll
    \/ BuildModel
    \/ BuildOptimizer
    \/ MakeRecorder
    \/ LoadWeights

Run == RunTrain \/ RunEval \/ RunSingle \/ RunOther

Evaluate == EvalBuildVal \/ EvalEvaluateHoi

Train ==
    \/ TrainBuildTrain
    \/ TrainBuildVal
    \/ LoopHead
    \/ SetEpoch
    \/ TrainOneEpoch
    \/ SchedulerStep
    \/ EvaluateHoi
    \/ SaveCheckpoints
    \/ SaveLogs
    \/ Report

Init == InitWith(RunArgv, RunNets)
Next == Constructor \/ Run \/ Evaluate \/ Train
Spec == Init /\ [][Next]_vars

\* Construction alone, over all the overrides and modules.
InitCtor == InitWith(CtorArgv, Nets)
SpecCtor == InitCtor /\ [][Constructor]_vars

\* ------------------------------------------------------------ vocabulary
CtorPcs == {"new", "init_distributed", "check_frozen", "seed", "build_model",
            "build_optimizer", "recorder", "load_model_weights"}
EvalPcs == {"eval_build_val", "eval_evaluate_hoi"}
LoopOps == {"set_epoch", "train_one_epoch", "lr_scheduler_step", "evaluate_hoi",
            "save_checkpoints", "save_logs"}

\* run() has returned to its caller without raising.
Returned(m) == pc = "idle" /\ runs > 0 /\ mode = m /\ error = "none"

OpCalls(ops) == LET Test(c) == c.op \in ops IN SelectSeq(calls, Test)

\* The external steps of one epoch iteration, in the order of the loop body.
IterCalls(e, dist) ==
    (IF dist THEN <<Event("set_epoch", e)>> ELSE <<>>) \o
    << Event("train_one_epoch", e), Event("lr_scheduler_step", e),
       Event("evaluate_hoi", e), Event("save_checkpoints", e),
       Event("save_logs", e) >>

DatasetCalls == <<Event("build_dataset_train", 0), Event("build_dataset_val", 0)>>

Max0(n) == IF n > 0 THEN n ELSE 0

\* ----------------------------------------------------------------- claims

\* C1: run(mode) with any mode other than "train" and "eval" ("single" or any
\* other string) ends with the unimplemented-mode error; it never returns
\* normally.  (Stated as the claim has it; the code returns None for a mode
\* that is none of "train", "eval", "single".)
C1_OtherModeRaises ==
    (runs > 0 /\ mode \notin {"train", "eval"})
        => (pc = "aborted" /\ error = "ValueError")

\* C2: in train(), the loop's external calls come in whole iterations, each
\* being (set_epoch when distributed,) train_one_epoch, lr_scheduler.step,
\* evaluate_hoi, save_checkpoints, save_logs, once each and in this order, no
\* epoch index being iterated twice; without distribution set_epoch is never
\* called; and train() with start_epoch = 0, epochs = 1 makes exactly the calls
\* of one iteration between the dataset builds and the final report.
C2_IterationOrder ==
    mode = "train" =>
        LET lc == OpCalls(LoopOps)
            k == Len(IterCalls(0, env.distributed))
            First(i) == i - ((i - 1) % k)
        IN  /\ \A i \in 1 .. Len(lc) :
                  lc[i] = IterCalls(lc[First(i)].epoch, env.distributed)[i - First(i) + 1]
            /\ \A i, j \in 1 .. Len(lc) :
                  (First(i) = i /\ First(j) = j /\ i # j) => lc[i].epoch # lc[j].epoch
            /\ (pc \in {"loop", "report", "idle"} => Len(lc) % k = 0)
            /\ (~env.distributed => OpCalls({"set_epoch"}) = <<>>)
            /\ (Returned("train") /\ args.start_epoch = 0 /\ args.epochs = 1
                  => calls = DatasetCalls \o IterCalls(0, env.distributed)
                               \o <<Event("print_total_time", 0)>>
                               \o (IF args.hoi THEN <<Event("print_best_metrics", 0)>>
                                               ELSE <<>>))

C2_Witness ==
    /\ Returned("train") /\ args.start_epoch = 0 /\ args.epochs = 1
    /\ env.distributed
    /\ Len(OpCalls(LoopOps)) = Len(IterCalls(0, TRUE))

\* C3: train() iterates exactly over start_epoch, start_epoch + 1, ...,
\* epochs - 1, in increasing order and once each, and hands that index to
\* train_one_epoch, save_checkpoints and save_logs; with start_epoch >= epochs it
\* makes none of the loop's calls and still returns.
C3_EpochRange ==
    mode = "train" =>
        LET n == Max0(args.epochs - args.start_epoch) IN
        /\ \A op \in {"train_one_epoch", "save_checkpoints", "save_logs"} :
              LET s == OpCalls({op}) IN
              /\ \A i \in 1 .. Len(s) : s[i].epoch = args.start_epoch + i - 1
              /\ Len(s) <= n
              /\ (Returned("train") => Len(s) = n)
        /\ (args.start_epoch >= args.epochs => OpCalls(LoopOps) = <<>>)

C3_Witness ==
    /\ Returned("train") /\ args.start_epoch > 0
    /\ Len(OpCalls({"save_logs"})) >= 2

\* C4: evaluate() builds only the validation dataset and makes one evaluation
\* pass, and no step of run("eval") changes the optimizer, the scheduler, the
\* recorder or the configuration.
C4_EvalFrame ==
    /\ [](mode = "eval" =>
            /\ \/ calls = <<>>
               \/ calls = <<Event("build_dataset_val", 0)>>
               \/ calls = <<Event("build_dataset_val", 0), Event("evaluate_hoi", 0)>>
            /\ (Returned("eval") =>
                  calls = <<Event("build_dataset_val", 0), Event("evaluate_hoi", 0)>>))
    /\ [][(mode' = "eval") =>
            (optimizer' = optimizer /\ lr_scheduler' = lr_scheduler
             /\ recorder' = recorder /\ args' = args)]_vars

C4_Witness ==
    /\ Returned("eval")
    /\ calls = <<Event("build_dataset_val", 0), Event("evaluate_hoi", 0)>>
    /\ lr_scheduler.last_epoch > 1 /\ optimizer.steps > 1 /\ recorder.updates > 1

\* C5: with frozen_weights set and masks not enabled, the constructor ends in
\* the assertion error as soon as it reaches the check, and nothing after the
\* check happens: no seeding, no build_model, no optimizer, no scheduler, no
\* checkpoint restore.
C5_FrozenFailsEarly ==
    (args.frozen_weights # "None" /\ ~args.masks) =>
        /\ pc \in {"init_distributed", "check_frozen", "failed"}
        /\ (pc = "failed" => error = "AssertionError")
        /\ seeds = [torch |-> {}, numpy |-> {}, random |-> {}]
        /\ ~model.built /\ ~optimizer.built /\ ~lr_scheduler.built
        /\ \A i \in 1 .. Len(calls) :
              calls[i].op \notin {"build_model", "load_model_weights"}

C5_Witness ==
    /\ args.frozen_weights # "None" /\ ~args.masks
    /\ pc = "failed" /\ error = "AssertionError" /\ ~model.built

\* C6: once the constructor is past the seeding, torch, numpy and random have
\* all been seeded with args.seed + rank (args.seed itself when the run is not
\* distributed), and the model is built only after that.
C6_SeedIsSeedPlusRank ==
    /\ (pc \notin {"new", "init_distributed", "check_frozen", "seed"}
        /\ ~(pc = "failed" /\ error \in {"SystemExit", "AssertionError"}))
         => /\ seeds.torch = {args.seed + env.rank}
            /\ seeds.numpy = seeds.torch /\ seeds.random = seeds.torch
            /\ (~env.distributed => seeds.torch = {args.seed})
    /\ (model.built => seeds.torch # {})
    /\ (pc = "build_model" => ~model.built)

C6_Witness ==
    /\ pc = "idle" /\ model.built
    /\ env.distributed /\ env.rank > 0
    /\ seeds.torch = {args.seed + env.rank}

\* The overrides end with an option that is not declared, a positional token, an
\* option without its value, a non-integer for an int option, or a value outside
\* the choices.
HasBadOverride(a) ==
    \E b \in BadPieces :
        Len(a) >= Len(b) /\ SubSeq(a, Len(a) - Len(b) + 1, Len(a)) = b

\* C7: with such overrides the constructor ends in argparse's usage error (exit)
\* and nothing else happens: no distributed initialisation, no seeding, no
\* build_model, no optimizer or scheduler, no checkpoint restore.
C7_BadOverridesFailFirst ==
    HasBadOverride(argv) =>
        /\ pc \in {"new", "failed"}
        /\ (pc = "failed" => error = "SystemExit")
        /\ calls = <<>>
        /\ seeds = [torch |-> {}, numpy |-> {}, random |-> {}]
        /\ ~model.built /\ ~optimizer.built /\ ~lr_scheduler.built
        /\ ~recorder.present

C7_Witness ==
    /\ HasBadOverride(argv) /\ pc = "failed" /\ error = "SystemExit"
    /\ argv[1] = "--hoi"

\* The parameter names that contain "backbone".
BackboneNames == {NameBackboneW, NameHoiBackbone}

\* C8: the optimizer has two groups; a trainable parameter is in exactly one of
\* them, the second (with lr_backbone) iff its name contains "backbone", else
\* the first (with lr); a parameter that is not trainable is in neither; the
\* sizes of the groups are those of the two classes of trainable names.
C8_GroupsPartitionTrainable ==
    optimizer.built =>
        LET g == optimizer.groups
            Trainable == { n \in DOMAIN env.net : env.net[n] }
        IN  /\ Len(g) = 2
            /\ g[1].lr = args.lr /\ g[2].lr = args.lr_backbone
            /\ \A n \in DOMAIN env.net :
                  /\ (env.net[n] /\ n \in BackboneNames)
                        => (n \in g[2].params /\ n \notin g[1].params)
                  /\ (env.net[n] /\ n \notin BackboneNames)
                        => (n \in g[1].params /\ n \notin g[2].params)
                  /\ ~env.net[n] => (n \notin g[1].params /\ n \notin g[2].params)
            /\ g[1].params \cup g[2].params \subseteq DOMAIN env.net
            /\ Cardinality(g[2].params) = Cardinality(Trainable \cap BackboneNames)
            /\ Cardinality(g[1].params) = Cardinality(Trainable \ BackboneNames)

C8_Witness ==
    /\ optimizer.built
    /\ optimizer.groups[2].params = {NameHoiBackbone}
    /\ optimizer.groups[1].params = {}
    /\ Cardinality(DOMAIN env.net) = 2

\* C9: after construction there is a recorder iff args.hoi; train() reports the
\* best metrics at most once, as its last step after the loop has ended, only
\* with a recorder, and exactly once when it returns with a recorder; without a
\* recorder it returns without that report.
C9_BestMetricsOnce ==
    /\ (pc \notin CtorPcs /\ pc # "failed") => (recorder.present <=> args.hoi)
    /\ mode = "train" =>
          LET best == OpCalls({"print_best_metrics"}) IN
          /\ Len(best) <= 1
          /\ Len(best) = 1 =>
                /\ recorder.present
                /\ calls[Len(calls)].op = "print_best_metrics"
                /\ pc = "idle" /\ epoch >= args.epochs
                /\ Len(OpCalls({"save_logs"})) = Max0(args.epochs - args.start_epoch)
          /\ Returned("train") => (Len(best) = 1 <=> recorder.present)

C9_Witness ==
    /\ Returned("train") /\ recorder.present
    /\ Len(OpCalls({"print_best_metrics"})) = 1
    /\ Len(OpCalls({"save_logs"})) >= 1

\* C10: an error raised by a call made in train() ends the run at that call:
\* the failed call is the last one, the final report is not made, the steps that
\* follow a failed training pass in its epoch are not made, and nothing runs
\* after the abort.
C10_FailureAborts ==
    /\ [](error # "none" => pc \in {"aborted", "failed"})
    /\ []((pc = "aborted" /\ error = "external" /\ mode = "train") =>
            LET last == calls[Len(calls)] IN
            /\ last.op \in {"build_dataset_train", "build_dataset_val",
                            "train_one_epoch", "lr_scheduler_step", "evaluate_hoi",
                            "save_checkpoints", "save_logs"}
            /\ OpCalls({"print_total_time", "print_best_metrics"}) = <<>>
            /\ last.op = "train_one_epoch" =>
                  \A i \in 1 .. Len(calls) :
                      calls[i].epoch = last.epoch =>
                          calls[i].op \notin {"lr_scheduler_step", "evaluate_hoi",
                                              "save_checkpoints", "save_logs"})
    /\ [][pc # "aborted"]_vars

C10_Witness ==
    /\ pc = "aborted" /\ error = "external" /\ mode = "train"
    /\ calls[Len(calls)] = Event("train_one_epoch", args.start_epoch + 1)

====
